---- MODULE Spec2Model ----
(***************************************************************************)
(* Model of py-in-mem/glue.c: the C bridge between a host process and an   *)
(* embedded CPython + NumPy runtime (init_python, load_func, detect,       *)
(* py_last_error, py_decref).                                              *)
(*                                                                         *)
(* The runtime heap is a table of reference-counted objects.  Every        *)
(* runtime call the bridge makes is one step of the calling thread, so     *)
(* that calls of different threads interleave exactly where the C code     *)
(* lets them (the bridge takes no lock).                                   *)
(***************************************************************************)
EXTENDS Integers, Sequences, FiniteSets, TLC

\* ------------------------------------------------------------------ bounds
\* Number of heap slots for objects created by bridge calls.
MaxDyn == 4
\* Longest values buffer handed to detect.
MaxLen == 2
\* Number of bridge calls one run makes.
MaxCalls == 5

\* ------------------------------------------------------- program constants
NULL == 0
\* A pointer value that refers to no object's storage.
Wild == -1

Threads == {1, 2}
MainThread == 1

\* Statically placed runtime objects: the "detectors" module, its
\* attributes, and the exception classes.
ModuleId == 1
IdentId == 2
ZscoreId == 3
BadTypeId == 4
RaisesId == 5
ExcBase == 5
ExcNames == <<"ModuleNotFoundError", "AttributeError", "RuntimeError",
              "MemoryError", "UnicodeDecodeError">>
NStatic == ExcBase + Len(ExcNames)

StaticIds == 1..NStatic
DynIds == (NStatic + 1)..(NStatic + MaxDyn)
ObjIds == StaticIds \cup DynIds

ExcId(name) == ExcBase + CHOOSE i \in 1..Len(ExcNames) : ExcNames[i] = name

ModuleNames == {"detectors", "nonexistent_mod", "bad_utf8"}
FuncNames == {"ident", "zscore", "bad_type", "raises", "missing"}

\* getattr(detectors, name): the object id, NULL when there is no such
\* attribute.
AttrOf(name) ==
    CASE name = "ident" -> IdentId
      [] name = "zscore" -> ZscoreId
      [] name = "bad_type" -> BadTypeId
      [] name = "raises" -> RaisesId
      [] OTHER -> NULL

FreeObj == [type |-> "free", rc |-> 0, data |-> <<>>, text |-> "",
            item |-> NULL, buf |-> 0]

Obj(type, rc) == [FreeObj EXCEPT !.type = type, !.rc = rc]

\* result_t res = {NULL, 0};
ZeroResult == [obj |-> NULL, indices |-> NULL, size |-> 0, err |-> 0]

\* The locals of a bridge call that is not running.
NoFrame == [module_name |-> "", func_name |-> "", py_mod_name |-> NULL,
            module |-> NULL, func |-> NULL, size |-> 0, arr |-> NULL,
            args |-> NULL, out |-> NULL, res |-> ZeroResult,
            err |-> NULL, str |-> NULL, utf8 |-> NULL]

VARIABLES
    proc,           \* "running", "exited" (fatal error) or "crashed"
    corrupt,        \* a freed object's memory has been written
    env,            \* what the installation provides: [py, numpy]
    pyInit,         \* the interpreter is initialized
    arrayApi,       \* PyArray_API has been imported
    pyInitRuns,     \* times the interpreter initialization ran
    arrayInitRuns,  \* times _import_array ran
    heap,           \* object id -> object
    pending,        \* the pending exception: "none" or a class name
    pc,             \* thread -> position
    frame,          \* thread -> locals of the running bridge call
    fn,             \* the caller's resolved function handle
    result,         \* thread -> last result_t detect returned
    errptr,         \* thread -> last pointer py_last_error returned
    funcret,        \* thread -> last pointer load_func returned
    initret,        \* thread -> what the last init_python returned
    released,       \* thread -> py_decref calls on result[t].obj
    ops,            \* thread -> names of the last two bridge calls
    probe,          \* thread -> bridge function -> heap at its last entry
    callarg,        \* thread -> arguments of the last load_func / detect
    perr,           \* thread -> pending exception at entry of the last call
    calls           \* bridge calls made so far

vars == <<proc, corrupt, env, pyInit, arrayApi, pyInitRuns, arrayInitRuns,
          heap, pending, pc, frame, fn, result, errptr, funcret, initret,
          released, ops, probe, callarg, perr, calls>>

runtimeVars == <<pyInit, arrayApi, pyInitRuns, arrayInitRuns>>
callerVars == <<fn, result, errptr, funcret, initret, released>>
callVars == <<ops, probe, callarg, perr, calls>>

\* ------------------------------------------------------------ heap helpers
Live(h, o) == o \in ObjIds /\ h[o].type # "free"

FreeSlots(h) == {o \in DynIds : h[o].type = "free"}

\* The allocator hands out the lowest free slot, so that freed memory is
\* reused by the next allocation.
Alloc(h) == CHOOSE o \in FreeSlots(h) : \A p \in FreeSlots(h) : o <= p

NoMem(h) == FreeSlots(h) = {}

Py_INCREF(h, o) == [h EXCEPT ![o].rc = @ + 1]

RECURSIVE Py_DECREF(_, _)
Py_DECREF(h, o) ==
    IF h[o].rc > 1
    THEN [h EXCEPT ![o].rc = @ - 1]
    ELSE LET freed == [h EXCEPT ![o] = FreeObj]
         IN  IF h[o].type = "tuple" /\ h[o].item # NULL
             THEN Py_DECREF(freed, h[o].item)
             ELSE freed

\* str(cls) of an exception class.
ClassRepr(name) ==
    CASE name = "ModuleNotFoundError" -> "<class 'ModuleNotFoundError'>"
      [] name = "AttributeError" -> "<class 'AttributeError'>"
      [] name = "RuntimeError" -> "<class 'RuntimeError'>"
      [] name = "MemoryError" -> "<class 'MemoryError'>"
      [] name = "UnicodeDecodeError" -> "<class 'UnicodeDecodeError'>"
      [] OTHER -> ""

\* The bridge functions whose effect on the heap is measured.
ProbedOps == {"load_func", "detect", "py_last_error"}

NoArgs == [module_name |-> "", func_name |-> "", func |-> NULL, size |-> 0]

\* --------------------------------------------------------------- the state
Init ==
    /\ proc = "running"
    /\ corrupt = FALSE
    /\ env \in [py : BOOLEAN, numpy : BOOLEAN]
    /\ pyInit = FALSE
    /\ arrayApi = FALSE
    /\ pyInitRuns = 0
    /\ arrayInitRuns = 0
    /\ heap = [o \in ObjIds |-> FreeObj]
    /\ pending = "none"
    /\ pc = [t \in Threads |-> "idle"]
    /\ frame = [t \in Threads |-> NoFrame]
    /\ fn = NULL
    /\ result = [t \in Threads |-> ZeroResult]
    /\ errptr = [t \in Threads |-> NULL]
    /\ funcret = [t \in Threads |-> NULL]
    /\ initret = [t \in Threads |-> "none"]
    /\ released = [t \in Threads |-> 0]
    /\ ops = [t \in Threads |-> <<>>]
    /\ probe = [t \in Threads |->
                 [op \in ProbedOps |-> [o \in ObjIds |-> FreeObj]]]
    /\ callarg = [t \in Threads |-> NoArgs]
    /\ perr = [t \in Threads |-> "none"]
    /\ calls = 0

\* Some init_python call has returned to its caller.
Initialized == \E t \in Threads : initret[t] # "none"

\* The caller enters bridge function `op`.
Enter(t, op, at) ==
    /\ proc = "running"
    /\ pc[t] = "idle"
    /\ calls < MaxCalls
    /\ calls' = calls + 1
    /\ pc' = [pc EXCEPT ![t] = at]
    /\ ops' = [ops EXCEPT ![t] = IF @ = <<>> THEN <<op>> ELSE <<@[Len(@)], op>>]
    /\ probe' = IF op \in ProbedOps THEN [probe EXCEPT ![t][op] = heap]
                 ELSE probe
    /\ perr' = [perr EXCEPT ![t] = pending]

At(t, at) == proc = "running" /\ pc[t] = at

Goto(t, at) == pc' = [pc EXCEPT ![t] = at]

Return(t) == /\ pc' = [pc EXCEPT ![t] = "idle"]
             /\ frame' = [frame EXCEPT ![t] = NoFrame]

\* ------------------------------------------------------------- init_python
init_python(t) ==
    /\ Enter(t, "init_python", "init_Py_Initialize")
    /\ UNCHANGED callarg
    /\ UNCHANGED <<proc, corrupt, env, runtimeVars, heap, pending, frame,
                   callerVars>>

\* Py_Initialize(): a no-op on an initialized interpreter; a failure to
\* initialize is fatal inside the runtime.
init_Py_Initialize(t) ==
    /\ At(t, "init_Py_Initialize")
    /\ IF pyInit
       THEN /\ Goto(t, "init_import_array")
            /\ UNCHANGED <<proc, pyInit, pyInitRuns, heap>>
       ELSE /\ pyInitRuns' = pyInitRuns + 1
            /\ IF env.py
               THEN /\ pyInit' = TRUE
                    /\ heap' = [o \in ObjIds |->
                                  IF o > ExcBase /\ o <= NStatic
                                  THEN [Obj("type", 1) EXCEPT
                                          !.text = ExcNames[o - ExcBase]]
                                  ELSE heap[o]]
                    /\ Goto(t, "init_import_array")
                    /\ UNCHANGED proc
               ELSE /\ proc' = "exited"
                    /\ UNCHANGED <<pyInit, heap, pc>>
    /\ UNCHANGED <<corrupt, env, arrayApi, arrayInitRuns, pending, frame,
                   callerVars, callVars>>

\* import_array(): runs _import_array() on every call; on failure prints
\* the error, sets ImportError and returns NULL from init_python.  On
\* success control falls off the end of init_python, whose return value
\* is then indeterminate.
init_import_array(t) ==
    /\ At(t, "init_import_array")
    /\ arrayInitRuns' = arrayInitRuns + 1
    /\ IF env.numpy
       THEN /\ arrayApi' = TRUE
            /\ initret' = [initret EXCEPT ![t] = "indeterminate"]
            /\ UNCHANGED pending
       ELSE /\ pending' = "ModuleNotFoundError"
            /\ initret' = [initret EXCEPT ![t] = "NULL"]
            /\ UNCHANGED arrayApi
    /\ Return(t)
    /\ UNCHANGED <<proc, corrupt, env, pyInit, pyInitRuns, heap, fn, result,
                   errptr, funcret, released, callVars>>

\* --------------------------------------------------------------- load_func
\* The caller resolves a function when it holds none.
load_func(t, module_name, func_name) ==
    /\ Initialized
    /\ fn = NULL
    /\ Enter(t, "load_func", "lf_FromString")
    /\ callarg' = [callarg EXCEPT ![t] = [NoArgs EXCEPT
                    !.module_name = module_name, !.func_name = func_name]]
    /\ frame' = [frame EXCEPT ![t] = [NoFrame EXCEPT
                    !.module_name = module_name, !.func_name = func_name]]
    /\ UNCHANGED <<proc, corrupt, env, runtimeVars, heap, pending,
                   callerVars>>

\* load_func returns `func` to the caller, which keeps a non-NULL one.
lf_Return(t, func) ==
    /\ funcret' = [funcret EXCEPT ![t] = func]
    /\ fn' = IF func # NULL THEN func ELSE fn
    /\ Return(t)

\* py_mod_name = PyUnicode_FromString(module_name);
\* if (py_mod_name == NULL) return NULL;
lf_FromString(t) ==
    /\ At(t, "lf_FromString")
    /\ IF frame[t].module_name = "bad_utf8"
       THEN /\ pending' = "UnicodeDecodeError"
            /\ lf_Return(t, NULL)
            /\ UNCHANGED heap
       ELSE IF NoMem(heap)
       THEN /\ pending' = "MemoryError"
            /\ lf_Return(t, NULL)
            /\ UNCHANGED heap
       ELSE /\ heap' = [heap EXCEPT ![Alloc(heap)] =
                          [Obj("str", 1) EXCEPT !.text = frame[t].module_name]]
            /\ frame' = [frame EXCEPT ![t].py_mod_name = Alloc(heap)]
            /\ Goto(t, "lf_Import")
            /\ UNCHANGED <<pending, funcret, fn>>
    /\ UNCHANGED <<proc, corrupt, env, runtimeVars, result, errptr, initret,
                   released, callVars>>

\* The heap after the first import of "detectors" has created the module
\* (referenced by sys.modules) and its attributes (referenced by the
\* module's dictionary).
Imported(h) ==
    IF Live(h, ModuleId) THEN h
    ELSE [o \in ObjIds |->
            IF o = ModuleId THEN [Obj("module", 1) EXCEPT !.text = "detectors"]
            ELSE IF o \in {IdentId, ZscoreId, BadTypeId, RaisesId}
                 THEN Obj("function", 1)
                 ELSE h[o]]

\* module = PyImport_Import(py_mod_name);
lf_Import(t) ==
    /\ At(t, "lf_Import")
    /\ IF heap[frame[t].py_mod_name].text = "detectors"
       THEN /\ heap' = Py_INCREF(Imported(heap), ModuleId)
            /\ frame' = [frame EXCEPT ![t].module = ModuleId]
            /\ UNCHANGED pending
       ELSE /\ pending' = "ModuleNotFoundError"
            /\ frame' = [frame EXCEPT ![t].module = NULL]
            /\ UNCHANGED heap
    /\ Goto(t, "lf_DecrefName")
    /\ UNCHANGED <<proc, corrupt, env, runtimeVars, callerVars, callVars>>

\* lf_DecrefName with the test of module moved before the release: the
\* failure path returns while still holding the module-name string.
lf_DecrefName_LeakOnFailure(t) ==
    /\ At(t, "lf_DecrefName")
    /\ IF frame[t].module = NULL
       THEN /\ lf_Return(t, NULL)
            /\ UNCHANGED heap
       ELSE /\ heap' = Py_DECREF(heap, frame[t].py_mod_name)
            /\ Goto(t, "lf_GetAttr")
            /\ UNCHANGED <<frame, funcret, fn>>
    /\ UNCHANGED <<proc, corrupt, env, runtimeVars, pending, result, errptr,
                   initret, released, callVars>>

\* Py_DECREF(py_mod_name); if (module == NULL) return NULL;
lf_DecrefName(t) ==
    /\ At(t, "lf_DecrefName")
    /\ heap' = Py_DECREF(heap, frame[t].py_mod_name)
    /\ IF frame[t].module = NULL
       THEN lf_Return(t, NULL)
       ELSE /\ Goto(t, "lf_GetAttr")
            /\ UNCHANGED <<frame, funcret, fn>>
    /\ UNCHANGED <<proc, corrupt, env, runtimeVars, pending, result, errptr,
                   initret, released, callVars>>

\* func = PyObject_GetAttrString(module, func_name);
lf_GetAttr(t) ==
    /\ At(t, "lf_GetAttr")
    /\ LET a == AttrOf(frame[t].func_name)
       IN  IF a # NULL
           THEN /\ heap' = Py_INCREF(heap, a)
                /\ frame' = [frame EXCEPT ![t].func = a]
                /\ UNCHANGED pending
           ELSE /\ pending' = "AttributeError"
                /\ frame' = [frame EXCEPT ![t].func = NULL]
                /\ UNCHANGED heap
    /\ Goto(t, "lf_DecrefModule")
    /\ UNCHANGED <<proc, corrupt, env, runtimeVars, callerVars, callVars>>

\* lf_DecrefModule releasing the module only when the attribute was found:
\* the failure path returns while still holding the module.
lf_DecrefModule_LeakOnFailure(t) ==
    /\ At(t, "lf_DecrefModule")
    /\ heap' = IF frame[t].func = NULL THEN heap
               ELSE Py_DECREF(heap, frame[t].module)
    /\ lf_Return(t, frame[t].func)
    /\ UNCHANGED <<proc, corrupt, env, runtimeVars, pending, result, errptr,
                   initret, released, callVars>>

\* Py_DECREF(module); return func;
lf_DecrefModule(t) ==
    /\ At(t, "lf_DecrefModule")
    /\ heap' = Py_DECREF(heap, frame[t].module)
    /\ lf_Return(t, frame[t].func)
    /\ UNCHANGED <<proc, corrupt, env, runtimeVars, pending, result, errptr,
                   initret, released, callVars>>

\* ------------------------------------------------------------------ detect
\* What the detector behind function object `f` computes for an input of
\* `n` elements: "array" with the indices it flags, "other" for a value
\* that is no array, "raise" for an exception.
DetectorKind(f) ==
    CASE f = IdentId -> "array"
      [] f = ZscoreId -> "array"
      [] f = BadTypeId -> "other"
      [] OTHER -> "raise"

DetectorOutput(f, n) ==
    IF f = IdentId THEN [i \in 1..n |-> i - 1]
    ELSE IF n > 0 THEN <<n - 1>> ELSE <<>>

\* The caller runs a detection on its values buffer of `size` elements
\* with the function it resolved.
detect(t, size) ==
    /\ Initialized
    /\ fn # NULL
    /\ Enter(t, "detect", "d_NewArray")
    /\ callarg' = [callarg EXCEPT ![t] = [NoArgs EXCEPT
                    !.func = fn, !.size = size]]
    /\ frame' = [frame EXCEPT ![t] = [NoFrame EXCEPT
                    !.func = fn, !.size = size]]
    /\ UNCHANGED <<proc, corrupt, env, runtimeVars, heap, pending,
                   callerVars>>

\* detect returns `res` to the caller.
d_Return(t, res) ==
    /\ result' = [result EXCEPT ![t] = res]
    /\ released' = [released EXCEPT ![t] = 0]
    /\ Return(t)

\* arr = PyArray_SimpleNewFromData(1, dim, NPY_DOUBLE, values);
\* if (arr == NULL) { res.err = 1; return res; }
\* The call goes through the PyArray_API table, which is NULL until
\* import_array has succeeded.
d_NewArray(t) ==
    /\ At(t, "d_NewArray")
    /\ IF ~arrayApi
       THEN /\ proc' = "crashed"
            /\ UNCHANGED <<heap, pending, pc, frame, result, released>>
       ELSE IF NoMem(heap)
       THEN /\ pending' = "MemoryError"
            /\ d_Return(t, [frame[t].res EXCEPT !.err = 1])
            /\ UNCHANGED <<proc, heap>>
       ELSE /\ heap' = [heap EXCEPT ![Alloc(heap)] =
                          [Obj("ndarray", 1) EXCEPT
                             !.data = [i \in 1..frame[t].size |-> 0],
                             !.buf = t]]
            /\ frame' = [frame EXCEPT ![t].arr = Alloc(heap)]
            /\ Goto(t, "d_TupleNew")
            /\ UNCHANGED <<proc, pending, result, released>>
    /\ UNCHANGED <<corrupt, env, runtimeVars, fn, errptr, funcret, initret,
                   callVars>>

\* args = PyTuple_New(1);
d_TupleNew(t) ==
    /\ At(t, "d_TupleNew")
    /\ IF NoMem(heap)
       THEN /\ pending' = "MemoryError"
            /\ frame' = [frame EXCEPT ![t].args = NULL]
            /\ UNCHANGED heap
       ELSE /\ heap' = [heap EXCEPT ![Alloc(heap)] = Obj("tuple", 1)]
            /\ frame' = [frame EXCEPT ![t].args = Alloc(heap)]
            /\ UNCHANGED pending
    /\ Goto(t, "d_SetItem")
    /\ UNCHANGED <<proc, corrupt, env, runtimeVars, callerVars, callVars>>

\* PyTuple_SetItem(args, 0, arr): the tuple takes over the caller's
\* reference to arr.  args is not checked: a NULL args is dereferenced.
d_SetItem(t) ==
    /\ At(t, "d_SetItem")
    /\ IF frame[t].args = NULL
       THEN /\ proc' = "crashed"
            /\ UNCHANGED <<heap, pc>>
       ELSE /\ heap' = [heap EXCEPT ![frame[t].args].item = frame[t].arr]
            /\ Goto(t, "d_Call")
            /\ UNCHANGED proc
    /\ UNCHANGED <<corrupt, env, runtimeVars, pending, frame, callerVars,
                   callVars>>

\* d_Call releasing the function after the call, as if detect owned it.
d_Call_ReleasesFunc(t) ==
    /\ At(t, "d_Call")
    /\ LET f == frame[t].func
           n == Len(heap[heap[frame[t].args].item].data)
           h == Py_DECREF(heap, f)
       IN  IF DetectorKind(f) = "raise"
           THEN /\ pending' = "RuntimeError"
                /\ d_Return(t, [frame[t].res EXCEPT !.err = 1])
                /\ heap' = h
           ELSE IF NoMem(heap)
           THEN /\ pending' = "MemoryError"
                /\ d_Return(t, [frame[t].res EXCEPT !.err = 1])
                /\ heap' = h
           ELSE /\ heap' = [h EXCEPT ![Alloc(heap)] =
                              IF DetectorKind(f) = "array"
                              THEN [Obj("ndarray", 1) EXCEPT
                                      !.data = DetectorOutput(f, n)]
                              ELSE Obj("int", 1)]
                /\ frame' = [frame EXCEPT ![t].out = Alloc(heap)]
                /\ Goto(t, "d_Fill")
                /\ UNCHANGED <<pending, result, released>>
    /\ UNCHANGED <<proc, corrupt, env, runtimeVars, fn, errptr, funcret,
                   initret, callVars>>

\* out = PyObject_CallObject(func, args);
\* if (out == NULL) { res.err = 1; return res; }
\* The detector keeps no reference to its argument.
d_Call(t) ==
    /\ At(t, "d_Call")
    /\ LET f == frame[t].func
           n == Len(heap[heap[frame[t].args].item].data)
       IN  IF DetectorKind(f) = "raise"
           THEN /\ pending' = "RuntimeError"
                /\ d_Return(t, [frame[t].res EXCEPT !.err = 1])
                /\ UNCHANGED heap
           ELSE IF NoMem(heap)
           THEN /\ pending' = "MemoryError"
                /\ d_Return(t, [frame[t].res EXCEPT !.err = 1])
                /\ UNCHANGED heap
           ELSE /\ heap' = [heap EXCEPT ![Alloc(heap)] =
                              IF DetectorKind(f) = "array"
                              THEN [Obj("ndarray", 1) EXCEPT
                                      !.data = DetectorOutput(f, n)]
                              ELSE Obj("int", 1)]
                /\ frame' = [frame EXCEPT ![t].out = Alloc(heap)]
                /\ Goto(t, "d_Fill")
                /\ UNCHANGED <<pending, result, released>>
    /\ UNCHANGED <<proc, corrupt, env, runtimeVars, fn, errptr, funcret,
                   initret, callVars>>

\* What PyArray_SIZE may yield when applied to memory that is no array.
GarbageSizes == {-1, 0, 3}

\* d_Fill reporting the length of the input instead of the size of the
\* returned array.
d_Fill_InputSize(t) ==
    /\ At(t, "d_Fill")
    /\ d_Return(t, [obj |-> frame[t].out, indices |-> frame[t].out,
                    size |-> frame[t].size, err |-> 0])
    /\ UNCHANGED <<proc, corrupt, env, runtimeVars, heap, pending, fn, errptr,
                   funcret, initret, callVars>>

\* d_Fill handing out the element pointer without keeping the reference to
\* the returned array: the array is released before detect returns.
d_Fill_NoRetain(t) ==
    /\ At(t, "d_Fill")
    /\ LET out == frame[t].out
       IN  /\ d_Return(t, [obj |-> out, indices |-> out,
                           size |-> Len(heap[out].data), err |-> 0])
           /\ heap' = Py_DECREF(heap, out)
    /\ UNCHANGED <<proc, corrupt, env, runtimeVars, pending, fn, errptr,
                   funcret, initret, callVars>>

\* res.obj = out; res.size = PyArray_SIZE(out);
\* res.indices = PyArray_GETPTR1(out, 0); return res;
\* out is cast to PyArrayObject * without a type check: on any other
\* object the size and data fields are read from memory that holds
\* something else.
d_Fill(t) ==
    /\ At(t, "d_Fill")
    /\ LET out == frame[t].out
       IN  IF heap[out].type = "ndarray"
           THEN /\ d_Return(t, [obj |-> out, indices |-> out,
                                size |-> Len(heap[out].data), err |-> 0])
                /\ UNCHANGED proc
           ELSE \/ /\ proc' = "crashed"
                   /\ UNCHANGED <<pc, frame, result, released>>
                \/ /\ \E g \in GarbageSizes :
                        d_Return(t, [obj |-> out, indices |-> Wild,
                                     size |-> g, err |-> 0])
                   /\ UNCHANGED proc
    /\ UNCHANGED <<corrupt, env, runtimeVars, heap, pending, fn, errptr,
                   funcret, initret, callVars>>

\* ----------------------------------------------------------- py_last_error
py_last_error(t) ==
    /\ Initialized
    /\ Enter(t, "py_last_error", "ple_Occurred")
    /\ UNCHANGED callarg
    /\ UNCHANGED <<proc, corrupt, env, runtimeVars, heap, pending, frame,
                   callerVars>>

\* py_last_error returns `p` to the caller.
ple_Return(t, p) ==
    /\ errptr' = [errptr EXCEPT ![t] = p]
    /\ Return(t)

\* err = PyErr_Occurred(); if (err == NULL) return NULL;
\* The class of the pending exception, borrowed.
ple_Occurred(t) ==
    /\ At(t, "ple_Occurred")
    /\ IF pending = "none"
       THEN ple_Return(t, NULL)
       ELSE /\ frame' = [frame EXCEPT ![t].err = ExcId(pending)]
            /\ Goto(t, "ple_Str")
            /\ UNCHANGED errptr
    /\ UNCHANGED <<proc, corrupt, env, runtimeVars, heap, pending, fn,
                   result, funcret, initret, released, callVars>>

\* str = PyObject_Str(err);
ple_Str(t) ==
    /\ At(t, "ple_Str")
    /\ IF NoMem(heap)
       THEN /\ pending' = "MemoryError"
            /\ frame' = [frame EXCEPT ![t].str = NULL]
            /\ UNCHANGED heap
       ELSE /\ heap' = [heap EXCEPT ![Alloc(heap)] =
                          [Obj("str", 1) EXCEPT
                             !.text = ClassRepr(heap[frame[t].err].text)]]
            /\ frame' = [frame EXCEPT ![t].str = Alloc(heap)]
            /\ UNCHANGED pending
    /\ Goto(t, "ple_AsUTF8")
    /\ UNCHANGED <<proc, corrupt, env, runtimeVars, callerVars, callVars>>

\* utf8 = PyUnicode_AsUTF8(str): a pointer into the string object's own
\* storage.  str is not checked: a NULL str is dereferenced.
ple_AsUTF8(t) ==
    /\ At(t, "ple_AsUTF8")
    /\ IF frame[t].str = NULL
       THEN /\ proc' = "crashed"
            /\ UNCHANGED <<pc, frame>>
       ELSE /\ frame' = [frame EXCEPT ![t].utf8 = frame[t].str]
            /\ Goto(t, "ple_Decref")
            /\ UNCHANGED proc
    /\ UNCHANGED <<corrupt, env, runtimeVars, heap, pending, callerVars,
                   callVars>>

\* ple_Decref releasing the borrowed error object along with the string.
ple_Decref_ReleasesErr(t) ==
    /\ At(t, "ple_Decref")
    /\ heap' = Py_DECREF(Py_DECREF(heap, frame[t].str), frame[t].err)
    /\ ple_Return(t, frame[t].utf8)
    /\ UNCHANGED <<proc, corrupt, env, runtimeVars, pending, fn, result,
                   funcret, initret, released, callVars>>

\* Py_DECREF(str); return utf8;
ple_Decref(t) ==
    /\ At(t, "ple_Decref")
    /\ heap' = Py_DECREF(heap, frame[t].str)
    /\ ple_Return(t, frame[t].utf8)
    /\ UNCHANGED <<proc, corrupt, env, runtimeVars, pending, fn, result,
                   funcret, initret, released, callVars>>

\* --------------------------------------------------------------- py_decref
\* The handles the caller of thread t holds and may pass to py_decref.
Handles(t) == {result[t].obj, fn} \ {NULL}

\* void py_decref(PyObject *obj) { Py_DECREF(obj); }
\* On an object that was already freed the decrement writes to freed
\* memory; if the memory has been handed out again it hits the new object.
py_decref(t, obj) ==
    /\ Initialized
    /\ obj \in Handles(t)
    /\ Enter(t, "py_decref", "idle")
    /\ UNCHANGED callarg
    /\ IF Live(heap, obj)
       THEN /\ heap' = Py_DECREF(heap, obj)
            /\ UNCHANGED <<proc, corrupt>>
       ELSE \/ /\ proc' = "crashed"
               /\ UNCHANGED <<heap, corrupt>>
            \/ /\ corrupt' = TRUE
               /\ UNCHANGED <<heap, proc>>
    /\ released' = [released EXCEPT ![t] =
                      IF obj = result[t].obj THEN @ + 1 ELSE @]
    /\ fn' = IF obj = fn THEN NULL ELSE fn
    /\ UNCHANGED <<env, runtimeVars, pending, frame, result, errptr,
                   funcret, initret>>

\* ---------------------------------------------------------- specifications
InitSteps(t) ==
    \/ init_python(t)
    \/ init_Py_Initialize(t)
    \/ init_import_array(t)

LoadSteps(t) ==
    \/ \E m \in ModuleNames, f \in FuncNames : load_func(t, m, f)
    \/ lf_FromString(t)
    \/ lf_Import(t)
    \/ lf_DecrefName(t)
    \/ lf_GetAttr(t)
    \/ lf_DecrefModule(t)

DetectSteps(t) ==
    \/ \E n \in 0..MaxLen : detect(t, n)
    \/ d_NewArray(t)
    \/ d_TupleNew(t)
    \/ d_SetItem(t)
    \/ d_Call(t)
    \/ d_Fill(t)

ErrorSteps(t) ==
    \/ py_last_error(t)
    \/ ple_Occurred(t)
    \/ ple_Str(t)
    \/ ple_AsUTF8(t)
    \/ ple_Decref(t)

ReleaseSteps(t) == \E o \in ObjIds : py_decref(t, o)

\* One thread makes all the bridge calls, each running to its return
\* before the next.
Next ==
    \/ InitSteps(MainThread)
    \/ LoadSteps(MainThread)
    \/ DetectSteps(MainThread)
    \/ ErrorSteps(MainThread)
    \/ ReleaseSteps(MainThread)

Spec == Init /\ [][Next]_vars

\* The main thread initializes the runtime and resolves the function;
\* every thread then runs detections with the shared function and
\* releases its results.  The bridge takes no lock, so the steps of the
\* threads interleave freely.
ConcNext ==
    \/ InitSteps(MainThread)
    \/ LoadSteps(MainThread)
    \/ \E t \in Threads : DetectSteps(t)
    \/ \E t \in Threads : ReleaseSteps(t)

ConcSpec == Init /\ [][ConcNext]_vars

\* ------------------------------------------------------------- properties
\* Thread t is back in its caller, and the last bridge function it called
\* is `op`.
Returned(t, op) ==
    /\ proc = "running"
    /\ pc[t] = "idle"
    /\ ops[t] # <<>>
    /\ ops[t][Len(ops[t])] = op

\* What the caller reads through the pointer p as n consecutive longs.
\* Reading through a pointer into no live array yields no defined value.
ReadLongs(h, p, n) ==
    IF n <= 0 THEN <<>>
    ELSE IF p \in ObjIds /\ h[p].type = "ndarray" /\ n <= Len(h[p].data)
         THEN SubSeq(h[p].data, 1, n)
         ELSE <<Wild>>

DetectPcs == {"d_NewArray", "d_TupleNew", "d_SetItem", "d_Call", "d_Fill"}

\* C1: when load_func returns, the heap is what it was at entry (after the
\* first import of the module, where that happened) plus one reference on
\* the returned function: the module-name string is gone and the module
\* keeps no reference from the call.  A resolve of a nonexistent module
\* returns NULL and leaves the heap exactly as it was.
C1_LoadFuncReleasesIntermediates ==
    \A t \in Threads :
        Returned(t, "load_func") =>
            LET before == probe[t]["load_func"]
                base == IF Live(heap, ModuleId) THEN Imported(before)
                        ELSE before
            IN  /\ heap = IF funcret[t] # NULL
                          THEN Py_INCREF(base, funcret[t])
                          ELSE base
                /\ callarg[t].module_name = "nonexistent_mod" =>
                       funcret[t] = NULL /\ heap = before

\* A resolve of a nonexistent module has returned NULL with the import
\* error pending.
C1_Witness ==
    \E t \in Threads :
        /\ Returned(t, "load_func")
        /\ callarg[t].module_name = "nonexistent_mod"
        /\ funcret[t] = NULL
        /\ pending = "ModuleNotFoundError"

\* C2: after a successful detect followed by exactly one py_decref on the
\* result's obj, the heap is what it was when detect was entered.
C2_DetectThenReleaseRestoresHeap ==
    \A t \in Threads :
        ( /\ Returned(t, "py_decref")
          /\ ops[t] = <<"detect", "py_decref">>
          /\ result[t].err = 0
          /\ released[t] = 1 )
        => heap = probe[t]["detect"]

\* C3: every result detect returns is a full success (err clear, obj a
\* live array, indices pointing at its storage, size its element count)
\* or a full failure (err set, everything else zero).
C3_ResultIsSuccessOrFailure ==
    \A t \in Threads :
        Returned(t, "detect") =>
            LET r == result[t]
            IN  \/ /\ r.err = 0
                   /\ r.obj # NULL
                   /\ Live(heap, r.obj)
                   /\ heap[r.obj].type = "ndarray"
                   /\ r.indices = r.obj
                   /\ r.size = Len(heap[r.obj].data)
                \/ /\ r.err # 0
                   /\ r.obj = NULL
                   /\ r.indices = NULL
                   /\ r.size = 0

\* C4: when detect has run a function that returns an index array, the
\* result has err clear, size is the length of the array the detector
\* computes for the input, and the indices read through the result are
\* that array's elements in order.  (The only other outcome is that the
\* runtime ran out of memory, in which case no array was returned.)
C4_DetectReturnsDetectorArray ==
    \A t \in Threads :
        ( /\ Returned(t, "detect")
          /\ DetectorKind(callarg[t].func) = "array" )
        => LET expected == DetectorOutput(callarg[t].func, callarg[t].size)
               r == result[t]
           IN  \/ /\ r.err = 0
                  /\ r.size = Len(expected)
                  /\ ReadLongs(heap, r.indices, r.size) = expected
               \/ /\ r.err # 0
                  /\ pending = "MemoryError"

\* The identity-index detector has returned [0, 1] for an input of two
\* elements.
C4_Witness ==
    \E t \in Threads :
        /\ Returned(t, "detect")
        /\ callarg[t].func = IdentId
        /\ callarg[t].size = 2
        /\ result[t].err = 0
        /\ result[t].size = 2
        /\ ReadLongs(heap, result[t].indices, 2) = <<0, 1>>

\* C5: when the function detect calls returns an object that is not an
\* array, detect returns an error result.
C5_NonArrayReturnIsAnError ==
    \A t \in Threads :
        ( /\ Returned(t, "detect")
          /\ DetectorKind(callarg[t].func) = "other" )
        => result[t].err # 0

\* C6: py_last_error returns NULL exactly when no error is pending, and a
\* non-NULL return points at a live, non-empty string.
C6_LastErrorReturnsDiagnostic ==
    \A t \in Threads :
        Returned(t, "py_last_error") =>
            /\ (errptr[t] = NULL) <=> (pending = "none")
            /\ errptr[t] # NULL =>
                   /\ Live(heap, errptr[t])
                   /\ heap[errptr[t]].type = "str"
                   /\ heap[errptr[t]].text # ""

\* C7: a py_decref on a result's obj that was already released is
\* rejected or does nothing: it changes no reference count, no object and
\* no memory of the runtime.
C7_SecondReleaseIsNoOp ==
    [][\A t \in Threads :
          (released[t] >= 1 /\ released'[t] = released[t] + 1)
          => (heap' = heap /\ corrupt' = corrupt)]_vars

\* C8: over any sequence of init_python calls the interpreter
\* initialization and the array-subsystem initialization each run at most
\* once.
C8_InitializationRunsOnce ==
    pyInitRuns <= 1 /\ arrayInitRuns <= 1

\* C9: init_python returns to its caller only with both the interpreter
\* and the array subsystem initialized.
C9_InitReturnsOnlyWhenInitialized ==
    \A t \in Threads :
        initret[t] # "none" => (pyInit /\ arrayApi)

\* C10: at most one thread is inside detect at any time.
C10_DetectIsSerialized ==
    Cardinality({t \in Threads : pc[t] \in DetectPcs}) <= 1


\* C11: a resolve of a name that is no attribute of the importable module
\* returns NULL, has released the module (the heap is the heap at entry,
\* after the first import where that happened) and leaves an error
\* pending: AttributeError, unless the runtime ran out of memory before
\* the lookup.
C11_MissingFunctionFails ==
    \A t \in Threads :
        ( /\ Returned(t, "load_func")
          /\ callarg[t].module_name = "detectors"
          /\ AttrOf(callarg[t].func_name) = NULL )
        => LET before == probe[t]["load_func"]
           IN  /\ funcret[t] = NULL
               /\ \/ /\ pending = "AttributeError"
                     /\ heap = Imported(before)
                  \/ /\ pending = "MemoryError"
                     /\ heap = before

\* The lookup of "missing" in the imported module has failed.
C11_Witness ==
    \E t \in Threads :
        /\ Returned(t, "load_func")
        /\ callarg[t].module_name = "detectors"
        /\ callarg[t].func_name = "missing"
        /\ funcret[t] = NULL
        /\ pending = "AttributeError"
        /\ Live(heap, ModuleId)
        /\ heap[ModuleId].rc = 1


\* C12: a result detect returns with err clear carries a size >= 0: a
\* failed or negative size query is reported as an error result.
C12_SuccessSizeIsNonNegative ==
    \A t \in Threads :
        (Returned(t, "detect") /\ result[t].err = 0) => result[t].size >= 0

\* C13: when detect returns an error result, the heap is what it was when
\* detect was entered: the array view and the argument tuple are gone.
C13_FailedDetectRestoresHeap ==
    \A t \in Threads :
        (Returned(t, "detect") /\ result[t].err # 0)
        => heap = probe[t]["detect"]


\* C14: from the return of a successful detect until the caller's
\* py_decref on the result's obj, that object is alive with exactly the
\* one reference the result holds, and an array's elements can be read
\* through indices; right after that py_decref the object is gone.
C14_ResultKeepsArrayAlive ==
    \A t \in Threads :
        LET r == result[t]
        IN  /\ (r.err = 0 /\ r.obj # NULL /\ released[t] = 0) =>
                   /\ Live(heap, r.obj)
                   /\ heap[r.obj].rc = 1
                   /\ heap[r.obj].type = "ndarray" =>
                          ReadLongs(heap, r.indices, r.size) = heap[r.obj].data
            /\ ( /\ r.err = 0 /\ r.obj # NULL /\ released[t] = 1
                 /\ Returned(t, "py_decref") ) =>
                   ~Live(heap, r.obj)

\* A successful detect returned a non-empty array, another bridge call
\* has run since, and the result is not yet released.
C14_Witness ==
    \E t \in Threads :
        /\ Returned(t, "py_last_error")
        /\ ops[t] = <<"detect", "py_last_error">>
        /\ result[t].err = 0
        /\ result[t].size > 0
        /\ released[t] = 0
        /\ Live(heap, result[t].obj)


PlePcs == {"ple_Occurred", "ple_Str", "ple_AsUTF8", "ple_Decref"}

\* C15: when py_last_error returns, the pending error is the one that was
\* pending at entry and every object, the error object included, has the
\* reference count it had at entry; a call that directly follows another
\* py_last_error call returns NULL exactly if that one did.
C15_LastErrorChangesNothing ==
    [][\A t \in Threads :
          (pc[t] \in PlePcs /\ pc'[t] = "idle") =>
              /\ pending' = perr[t]
              /\ heap' = probe[t]["py_last_error"]
              /\ ops[t] = <<"py_last_error", "py_last_error">> =>
                     ((errptr'[t] = NULL) <=> (errptr[t] = NULL))]_vars

\* Two consecutive py_last_error calls have returned with an error pending.
C15_Witness ==
    \E t \in Threads :
        /\ Returned(t, "py_last_error")
        /\ ops[t] = <<"py_last_error", "py_last_error">>
        /\ pending # "none"
        /\ errptr[t] # NULL


\* C16: while detect runs and when it has returned, with success or with
\* failure, the function object it was given is exactly as it was when
\* detect was entered: same reference count, still alive.
C16_DetectLeavesFunctionAlone ==
    \A t \in Threads :
        (pc[t] \in DetectPcs \/ Returned(t, "detect")) =>
            LET f == callarg[t].func
            IN  /\ Live(heap, f)
                /\ heap[f] = probe[t]["detect"][f]

\* A second detect in a row has returned and the function still has the
\* two references it had after load_func: the module's and the caller's.
C16_Witness ==
    \E t \in Threads :
        /\ Returned(t, "detect")
        /\ ops[t] = <<"detect", "detect">>
        /\ fn # NULL
        /\ callarg[t].func = fn
        /\ heap[fn].rc = 2


\* C17: a non-NULL pointer returned by py_last_error points into a string
\* object that is still alive when py_last_error returns.
C17_ReturnedStringIsAlive ==
    \A t \in Threads :
        (Returned(t, "py_last_error") /\ errptr[t] # NULL) =>
            /\ Live(heap, errptr[t])
            /\ heap[errptr[t]].type = "str"

\* C18: a py_last_error that directly follows a successful load_func or
\* detect returns NULL.
C18_NoErrorAfterSuccess ==
    \A t \in Threads :
        ( /\ Returned(t, "py_last_error")
          /\ Len(ops[t]) = 2
          /\ \/ ops[t][1] = "load_func" /\ funcret[t] # NULL
             \/ ops[t][1] = "detect" /\ result[t].err = 0 )
        => errptr[t] = NULL

\* C19: while thread t is not inside detect, no live object of the runtime
\* refers to t's values buffer.
C19_NoAliasAfterDetect ==
    \A t \in Threads :
        pc[t] \notin DetectPcs =>
            ~ \E o \in ObjIds : Live(heap, o) /\ heap[o].buf = t

====
